---- MODULE Spec2Model ----
(***************************************************************************)
(* A model of go-order (src/main.go): the comment classifier               *)
(* (assignRootCommentsToDecl), the declaration comparator and sort         *)
(* (sortAST), the serializer (write), sortFile and run.                    *)
(*                                                                         *)
(* Source text is a sequence of bytes.  A token.Pos p of go/token (the     *)
(* first file of a fresh FileSet has base 1) names the byte contents[p]    *)
(* of a 1-based TLA+ sequence, so that Go's content[lo:hi] is              *)
(* SubSeq(contents, lo+1, hi).                                             *)
(***************************************************************************)
EXTENDS Integers, Sequences, FiniteSets, TLC

VARIABLES
    pc,        \* position of the operation under check
    conf,      \* Config: [SortAlphabetically, WriteToFile]
    inDecls,   \* tree.Decls as handed to sortAST
    Decls,     \* tree.Decls after sortAST
    contents,  \* the bytes read by run / given to sortFile
    tree,      \* the *ast.File of the first sortFile call
    comments,  \* the map built by assignRootCommentsToDecl (first call)
    out1,      \* result of sortFile(contents)
    out2,      \* result of sortFile(out1)
    args,      \* run: flag.Args()
    disk,      \* run: the bytes of the named file
    stdout,    \* run: the bytes written to os.Stdout
    err        \* run: the error it returns

vars == <<pc, conf, inDecls, Decls, contents, tree, comments, out1, out2,
          args, disk, stdout, err>>

\* ------------------------------------------------------------------ bounds

MaxDecls == 3
MaxUnits == 2

\* --------------------------------------------------------- declarations

\* the identifiers the declarations of the model carry, as bytes
nameA == <<97>>
nameB == <<98>>
nameAB == <<97, 98>>
nameZ == <<122>>
nameMain == <<109, 97, 105, 110>>
recvA == <<65>>
recvB == <<66>>
noName == <<>>

\* What go/parser reports of a declaration: its token (FuncDecl: FUNC,
\* GenDecl: Tok), the receiver type name and name of a function, the number
\* of Specs of a general declaration and the first name of its first Spec.
\* The key is the byte that stands for the declaration in a source text.
DeclTable ==
    [k \in {"I", "C", "K", "V", "W", "X", "T", "U",
            "F", "H", "M", "Q", "A", "E", "N"} |->
       CASE k = "I" -> [tok |-> "IMPORT", recv |-> noName, name |-> noName, nspecs |-> 1]
         [] k = "C" -> [tok |-> "CONST", recv |-> noName, name |-> nameA, nspecs |-> 1]
         [] k = "K" -> [tok |-> "CONST", recv |-> noName, name |-> nameB, nspecs |-> 1]
         [] k = "V" -> [tok |-> "VAR", recv |-> noName, name |-> nameA, nspecs |-> 1]
         [] k = "W" -> [tok |-> "VAR", recv |-> noName, name |-> nameB, nspecs |-> 1]
         [] k = "X" -> [tok |-> "VAR", recv |-> noName, name |-> nameA, nspecs |-> 2]
         [] k = "T" -> [tok |-> "TYPE", recv |-> noName, name |-> nameA, nspecs |-> 1]
         [] k = "U" -> [tok |-> "TYPE", recv |-> noName, name |-> nameB, nspecs |-> 1]
         [] k = "F" -> [tok |-> "FUNC", recv |-> noName, name |-> nameA, nspecs |-> 0]
         [] k = "H" -> [tok |-> "FUNC", recv |-> noName, name |-> nameZ, nspecs |-> 0]
         [] k = "M" -> [tok |-> "FUNC", recv |-> noName, name |-> nameMain, nspecs |-> 0]
         [] k = "Q" -> [tok |-> "FUNC", recv |-> noName, name |-> nameAB, nspecs |-> 0]
         [] k = "A" -> [tok |-> "FUNC", recv |-> recvA, name |-> nameA, nspecs |-> 0]
         [] k = "E" -> [tok |-> "FUNC", recv |-> recvB, name |-> nameA, nspecs |-> 0]
         [] k = "N" -> [tok |-> "FUNC", recv |-> recvA, name |-> nameMain, nspecs |-> 0]]

DeclKeys == DOMAIN DeclTable

\* An ast.Decl: identified by its position (Go: by its pointer).
MkDecl(k, pos, end) ==
    [key |-> k, tok |-> DeclTable[k].tok, recv |-> DeclTable[k].recv,
     name |-> DeclTable[k].name, nspecs |-> DeclTable[k].nspecs,
     Pos |-> pos, End |-> end]

\* ------------------------------------------------------------ comparator

order == [t \in {"IMPORT", "CONST", "VAR", "TYPE", "FUNC"} |->
            CASE t = "IMPORT" -> 0
              [] t = "CONST" -> 1
              [] t = "VAR" -> 2
              [] t = "TYPE" -> 3
              [] t = "FUNC" -> 4]

getToken(d) == d.tok

funcName(f) == [name |-> f.name, recv |-> f.recv]

\* strings.Compare: lexicographic order of the bytes; -1, 0 or +1
RECURSIVE Compare(_, _)
Compare(a, b) ==
    IF a = <<>> /\ b = <<>> THEN 0
    ELSE IF a = <<>> THEN 0 - 1
    ELSE IF b = <<>> THEN 1
    ELSE IF Head(a) < Head(b) THEN 0 - 1
    ELSE IF Head(a) > Head(b) THEN 1
    ELSE Compare(Tail(a), Tail(b))

\* lessFunc without its rule for main
lessFuncNoMain(da, db) ==
    LET a == funcName(da)
        b == funcName(db)
    IN  IF a.recv = noName /\ b.recv # noName THEN FALSE
        ELSE IF b.recv = noName /\ a.recv # noName THEN TRUE
        ELSE IF a.recv # b.recv THEN Compare(a.recv, b.recv) < 0
        ELSE Compare(a.name, b.name) < 0

\* the branch of the comparator for two FuncDecl (SortAlphabetically)
lessFunc(da, db) ==
    LET a == funcName(da)
        b == funcName(db)
    IN  IF a.recv = noName /\ a.name = nameMain THEN FALSE
        ELSE IF b.recv = noName /\ b.name = nameMain THEN TRUE
        ELSE IF a.recv = noName /\ b.recv # noName THEN FALSE
        ELSE IF b.recv = noName /\ a.recv # noName THEN TRUE
        ELSE IF a.recv # b.recv THEN Compare(a.recv, b.recv) < 0
        ELSE Compare(a.name, b.name) < 0

\* the branch of the comparator for two GenDecl (SortAlphabetically)
lessGen(a, b) ==
    IF a.nspecs = 1 /\ b.nspecs = 1
    THEN IF \/ a.tok = "TYPE" /\ b.tok = "TYPE"
            \/ a.tok = "VAR" /\ b.tok = "VAR"
            \/ a.tok = "CONST" /\ b.tok = "CONST"
         THEN Compare(a.name, b.name) < 0
         ELSE FALSE
    ELSE FALSE

\* less with the kinds compared only when the names are not
lessKindOnlyUnsorted(a, b, alpha) ==
    IF alpha /\ a.tok = "FUNC" /\ b.tok = "FUNC" THEN lessFunc(a, b)
    ELSE IF alpha /\ a.tok # "FUNC" /\ b.tok # "FUNC" /\ a.nspecs = 1 /\ b.nspecs = 1
    THEN Compare(a.name, b.name) < 0
    ELSE IF getToken(a) # getToken(b)
    THEN order[getToken(a)] < order[getToken(b)]
    ELSE FALSE

\* the less function sortAST hands to sort.Slice
less(a, b, alpha) ==
    IF getToken(a) # getToken(b)
    THEN order[getToken(a)] < order[getToken(b)]
    ELSE IF alpha
         THEN IF a.tok = "FUNC" /\ b.tok = "FUNC" THEN lessFunc(a, b)
              ELSE IF a.tok # "FUNC" /\ b.tok # "FUNC" THEN lessGen(a, b)
              ELSE FALSE
         ELSE FALSE

\* ------------------------------------------------------------ sort.Slice
\* sort.Slice is pdqsort_func (Go 1.19 and later) over indices 0..n-1.

At(data, i) == data[i + 1]

Swap(data, i, j) ==
    [data EXCEPT ![i + 1] = data[j + 1], ![j + 1] = data[i + 1]]

RECURSIVE insertionShift(_, _, _, _)
insertionShift(data, j, a, alpha) ==
    IF j > a /\ less(At(data, j), At(data, j - 1), alpha)
    THEN insertionShift(Swap(data, j, j - 1), j - 1, a, alpha)
    ELSE data

RECURSIVE insertionLoop(_, _, _, _, _)
insertionLoop(data, i, a, b, alpha) ==
    IF i < b
    THEN insertionLoop(insertionShift(data, i, a, alpha), i + 1, a, b, alpha)
    ELSE data

insertionSort(data, a, b, alpha) == insertionLoop(data, a + 1, a, b, alpha)

\* order2_func: <<x, y, swaps>> with data[x] <= data[y]
order2(data, a, b, swaps, alpha) ==
    IF less(At(data, b), At(data, a), alpha)
    THEN <<b, a, swaps + 1>>
    ELSE <<a, b, swaps>>

\* median_func: <<index of the median of a, b, c, swaps>>
median(data, a, b, c, swaps, alpha) ==
    LET s1 == order2(data, a, b, swaps, alpha)
        s2 == order2(data, s1[2], c, s1[3], alpha)
        s3 == order2(data, s1[1], s2[1], s2[3], alpha)
    IN  <<s3[2], s3[3]>>

\* choosePivot_func for fewer than shortestNinther (50) elements:
\* <<pivot, hint>>; at most three swaps are counted, so the hint is never
\* decreasingHint (maxSwaps = 12).
choosePivot(data, a, b, alpha) ==
    LET l == b - a
        i == a + (l \div 4) * 1
        j == a + (l \div 4) * 2
        k == a + (l \div 4) * 3
        m == IF l >= 8 THEN median(data, i, j, k, 0, alpha) ELSE <<j, 0>>
    IN  <<m[1], IF m[2] = 0 THEN "increasing" ELSE "unknown">>

\* partialInsertionSort_func for fewer than shortestShifting (50) elements:
\* TRUE iff no element is less than its predecessor; the data is unchanged.
partialInsertionSort(data, a, b, alpha) ==
    \A i \in (a + 1)..(b - 1) : ~less(At(data, i), At(data, i - 1), alpha)

RECURSIVE scanUp(_, _, _, _, _)
scanUp(data, a, i, j, alpha) ==
    IF i <= j /\ less(At(data, i), At(data, a), alpha)
    THEN scanUp(data, a, i + 1, j, alpha)
    ELSE i

RECURSIVE scanDown(_, _, _, _, _)
scanDown(data, a, i, j, alpha) ==
    IF i <= j /\ ~less(At(data, j), At(data, a), alpha)
    THEN scanDown(data, a, i, j - 1, alpha)
    ELSE j

RECURSIVE partitionLoop(_, _, _, _, _)
partitionLoop(data, a, i0, j0, alpha) ==
    LET i == scanUp(data, a, i0, j0, alpha)
        j == scanDown(data, a, i, j0, alpha)
    IN  IF i > j
        THEN <<Swap(data, j, a), j>>
        ELSE partitionLoop(Swap(data, i, j), a, i + 1, j - 1, alpha)

\* partition_func: <<data, newpivot>>
partition(data, a, b, pivot, alpha) ==
    LET d0 == Swap(data, a, pivot)
        i == scanUp(d0, a, a + 1, b - 1, alpha)
        j == scanDown(d0, a, i, b - 1, alpha)
    IN  IF i > j
        THEN <<Swap(d0, j, a), j>>
        ELSE partitionLoop(Swap(d0, i, j), a, i + 1, j - 1, alpha)

\* pdqsort_func on data[a:b], for b-a <= maxInsertion+1: after one
\* partition both sides hold at most maxInsertion elements and are
\* insertion-sorted, so that breakPatterns, heapSort and partitionEqual
\* are never entered.
pdqsort(data, a, b, alpha) ==
    LET maxInsertion == 12
    IN  IF b - a <= maxInsertion
        THEN insertionSort(data, a, b, alpha)
        ELSE LET p == choosePivot(data, a, b, alpha)
             IN  IF p[2] = "increasing" /\ partialInsertionSort(data, a, b, alpha)
                 THEN data
                 ELSE LET q == partition(data, a, b, p[1], alpha)
                          mid == q[2]
                      IN  insertionSort(insertionSort(q[1], a, mid, alpha),
                                        mid + 1, b, alpha)

SortSlice(data, alpha) == pdqsort(data, 0, Len(data), alpha)

\* sortAST: t.Decls sorted in place
sortAST(decls, c) == SortSlice(decls, c.SortAlphabetically)

\* ------------------------------------------------------------- go/parser
\* The source text of the model, byte by byte:
\*   "P" n      the package clause (keyword and name n)
\*   "D" k      the declaration DeclTable[k]; "D" k "{" ... "}" with a body
\*   "/" ...    a line comment, up to the end of the line
\*   "[" ... "]" a block comment
\*   " ", NL    white space

NL == "\n"

PkgNames == {"m"}

\* least e >= i with bytes[e] in set, Len(bytes)+1 if there is none
RECURSIVE IndexOf(_, _, _)
IndexOf(bytes, i, set) ==
    IF i > Len(bytes) THEN Len(bytes) + 1
    ELSE IF bytes[i] \in set THEN i
    ELSE IndexOf(bytes, i + 1, set)

\* token.File.Line: the line of position p; 0 for token.NoPos
Line(bytes, p) ==
    IF p = 0 THEN 0
    ELSE 1 + Cardinality({q \in 1..(p - 1) : q <= Len(bytes) /\ bytes[q] = NL})

LexError == [ok |-> FALSE, toks |-> <<>>]

\* go/scanner: the tokens of the text, comments included
RECURSIVE LexFrom(_, _, _, _)
LexFrom(bytes, i, inBody, toks) ==
    IF i > Len(bytes)
    THEN IF inBody THEN LexError ELSE [ok |-> TRUE, toks |-> toks]
    ELSE LET b == bytes[i]
         IN  CASE b = " " \/ b = NL -> LexFrom(bytes, i + 1, inBody, toks)
               [] b = "/" ->
                    LET e == IndexOf(bytes, i, {NL})
                    IN  LexFrom(bytes, e, inBody,
                                Append(toks, [type |-> "COMMENT", Pos |-> i,
                                              End |-> e, key |-> ""]))
               [] b = "[" ->
                    LET e == IndexOf(bytes, i, {"]"})
                    IN  IF e > Len(bytes) THEN LexError
                        ELSE LexFrom(bytes, e + 1, inBody,
                                     Append(toks, [type |-> "COMMENT", Pos |-> i,
                                                   End |-> e + 1, key |-> ""]))
               [] b = "}" ->
                    IF ~inBody THEN LexError
                    ELSE LexFrom(bytes, i + 1, FALSE,
                                 Append(toks, [type |-> "RBRACE", Pos |-> i,
                                               End |-> i + 1, key |-> ""]))
               [] b = "P" ->
                    IF inBody \/ i + 1 > Len(bytes) THEN LexError
                    ELSE IF bytes[i + 1] \notin PkgNames THEN LexError
                    ELSE LexFrom(bytes, i + 2, FALSE,
                                 Append(toks, [type |-> "PACKAGE", Pos |-> i,
                                               End |-> i + 2, key |-> bytes[i + 1]]))
               [] b = "D" ->
                    IF inBody \/ i + 1 > Len(bytes) THEN LexError
                    ELSE IF bytes[i + 1] \notin DeclKeys THEN LexError
                    ELSE IF i + 2 <= Len(bytes) /\ bytes[i + 2] = "{"
                    THEN LexFrom(bytes, i + 3, TRUE,
                                 Append(toks, [type |-> "LBRACE", Pos |-> i,
                                               End |-> i + 3, key |-> bytes[i + 1]]))
                    ELSE LexFrom(bytes, i + 2, FALSE,
                                 Append(toks, [type |-> "DECL", Pos |-> i,
                                               End |-> i + 2, key |-> bytes[i + 1]]))
               [] OTHER -> LexError

Lex(bytes) == LexFrom(bytes, 1, FALSE, <<>>)

NoGroup == [Pos |-> 0, End |-> 0, List |-> <<>>]

ParseInit ==
    [ok |-> TRUE, Package |-> 0, Name |-> "", Doc |-> <<>>, Comments |-> <<>>,
     Decls |-> <<>>, prevLine |-> 0, mode |-> "none", cur |-> NoGroup,
     endline |-> 0, open |-> 0, openKey |-> "", nonImport |-> FALSE]

ParseError == [ParseInit EXCEPT !.ok = FALSE]

\* parser.next: the comment c joins the current group or starts a new one
\* (consumeCommentGroup(0) on the line of the previous token, then
\* consumeCommentGroup(1))
ConsumeComment(bytes, st, c) ==
    LET lc == Line(bytes, c.Pos)
        ec == Line(bytes, c.End - 1)
        one == [Pos |-> c.Pos, End |-> c.End]
        joined == [st EXCEPT !.cur = [Pos |-> st.cur.Pos, End |-> c.End,
                                      List |-> Append(st.cur.List, one)],
                             !.endline = ec]
        fresh(m) == [st EXCEPT !.Comments = IF st.mode = "none" THEN st.Comments
                                            ELSE Append(st.Comments, st.cur),
                               !.cur = [Pos |-> c.Pos, End |-> c.End, List |-> <<one>>],
                               !.endline = ec,
                               !.mode = m]
    IN  CASE st.mode = "none" -> IF lc = st.prevLine THEN fresh("same") ELSE fresh("lead")
          [] st.mode = "same" -> IF lc <= st.endline THEN joined ELSE fresh("lead")
          [] st.mode = "lead" -> IF lc <= st.endline + 1 THEN joined ELSE fresh("lead")

\* the pending comment group is closed by a token that is no comment
CloseGroup(st) ==
    [st EXCEPT !.Comments = IF st.mode = "none" THEN st.Comments
                            ELSE Append(st.Comments, st.cur),
               !.cur = NoGroup, !.mode = "none"]

\* parser.parseFile, token by token
RECURSIVE ParseFrom(_, _, _, _)
ParseFrom(bytes, toks, idx, st) ==
    IF idx > Len(toks)
    THEN IF st.Package = 0 THEN ParseError ELSE CloseGroup(st)
    ELSE LET t == toks[idx]
             cl == CloseGroup(st)
             isLead == st.mode = "lead" /\ st.endline + 1 = Line(bytes, t.Pos)
             newLine == Line(bytes, t.Pos) > st.prevLine
             isImport == DeclTable[t.key].tok = "IMPORT"
         IN  CASE t.type = "COMMENT" ->
                    ParseFrom(bytes, toks, idx + 1, ConsumeComment(bytes, st, t))
               [] t.type = "PACKAGE" ->
                    IF st.Package # 0 THEN ParseError
                    ELSE ParseFrom(bytes, toks, idx + 1,
                           [cl EXCEPT !.Package = t.Pos, !.Name = t.key,
                                      !.Doc = IF isLead THEN st.cur.List ELSE <<>>,
                                      !.prevLine = Line(bytes, t.End - 1)])
               [] t.type = "DECL" ->
                    IF st.Package = 0 \/ ~newLine \/ (isImport /\ st.nonImport)
                    THEN ParseError
                    ELSE ParseFrom(bytes, toks, idx + 1,
                           [cl EXCEPT !.Decls = Append(st.Decls, MkDecl(t.key, t.Pos, t.End)),
                                      !.prevLine = Line(bytes, t.End - 1),
                                      !.nonImport = st.nonImport \/ ~isImport])
               [] t.type = "LBRACE" ->
                    IF st.Package = 0 \/ ~newLine \/ (isImport /\ st.nonImport)
                    THEN ParseError
                    ELSE ParseFrom(bytes, toks, idx + 1,
                           [cl EXCEPT !.open = t.Pos, !.openKey = t.key,
                                      !.prevLine = Line(bytes, t.End - 1),
                                      !.nonImport = st.nonImport \/ ~isImport])
               [] t.type = "RBRACE" ->
                    ParseFrom(bytes, toks, idx + 1,
                           [cl EXCEPT !.Decls = Append(st.Decls,
                                                   MkDecl(st.openKey, st.open, t.End)),
                                      !.open = 0, !.openKey = "",
                                      !.prevLine = Line(bytes, t.Pos)])

\* parser.ParseFile(fset, "", contents, ParseComments|AllErrors): the
\* fields of *ast.File the program reads, ok = FALSE for err != nil
ParseFile(bytes) ==
    LET lx == Lex(bytes)
    IN  IF ~lx.ok THEN ParseError
        ELSE LET st == ParseFrom(bytes, lx.toks, 1, ParseInit)
             IN  IF ~st.ok THEN ParseError
                 ELSE [ok |-> TRUE, Package |-> st.Package, Name |-> st.Name,
                       Doc |-> st.Doc, Comments |-> st.Comments, Decls |-> st.Decls]

\* ------------------------------------------------ assignRootCommentsToDecl

\* the key of the map entry of a declaration; NilKey is the nil ast.Decl
DeclKey(d) == d.Pos
NilKey == 0

\* the '\n' appended for content[i] = '\n', i = end, end+1, ... (Go's
\* content[i] is contents[i+1]); the appends land on bytes of content that
\* already are '\n', so content itself is not changed
RECURSIVE NewlineRun(_, _)
NewlineRun(content, i) ==
    IF i < Len(content) /\ content[i + 1] = NL
    THEN <<NL>> \o NewlineRun(content, i + 1)
    ELSE <<>>

\* the indices of the declarations that start after position end
DeclsAfter(decls, end) == {i \in 1..Len(decls) : decls[i].Pos > end}

Min(S) == CHOOSE x \in S : \A y \in S : x <= y

\* the map with bytes appended to the entry of key
AppendTo(m, key, bytes) ==
    [k \in DOMAIN m \cup {key} |->
        IF k = key
        THEN (IF key \in DOMAIN m THEN m[key] ELSE <<>>) \o bytes
        ELSE m[k]]

\* one iteration of the loop over tree.Comments
assignOne(t, content, m, c) ==
    LET start == c.Pos
        end == c.End
        after == DeclsAfter(t.Decls, end)
    IN  IF start < t.Package THEN m
        ELSE IF \E i \in 1..Len(t.Decls) :
                    t.Decls[i].Pos <= start /\ end <= t.Decls[i].End
        THEN m
        ELSE IF after # {}
        THEN AppendTo(m, DeclKey(t.Decls[Min(after)]),
                      SubSeq(content, start, end) \o NewlineRun(content, end))
        ELSE AppendTo(m, NilKey, SubSeq(content, start, Len(content)))

RECURSIVE assignFrom(_, _, _, _)
assignFrom(t, content, m, i) ==
    IF i > Len(t.Comments) THEN m
    ELSE assignFrom(t, content, assignOne(t, content, m, t.Comments[i]), i + 1)

assignRootCommentsToDecl(t, content) ==
    assignFrom(t, content, [k \in {NilKey} |-> <<NL>>], 1)

\* ------------------------------------------------------------------ write

RECURSIVE writeDoc(_, _, _)
writeDoc(content, doc, i) ==
    IF i > Len(doc) THEN <<>>
    ELSE SubSeq(content, doc[i].Pos, doc[i].End - 1) \o <<NL>>
         \o writeDoc(content, doc, i + 1)

RECURSIVE writeDecls(_, _, _, _)
writeDecls(content, decls, m, i) ==
    IF i > Len(decls) THEN <<>>
    ELSE (IF DeclKey(decls[i]) \in DOMAIN m THEN m[DeclKey(decls[i])] ELSE <<>>)
         \o SubSeq(content, decls[i].Pos, decls[i].End - 1)
         \o (IF i < Len(decls) THEN <<NL, NL>> ELSE <<>>)
         \o writeDecls(content, decls, m, i + 1)

\* the bytes written to w: tree.Decls is the sorted list
write(t, decls, content, m) ==
    writeDoc(content, t.Doc, 1)
    \o <<"P", t.Name, NL, NL>>
    \o writeDecls(content, decls, m, 1)
    \o (IF NilKey \in DOMAIN m THEN m[NilKey] ELSE <<>>)

\* --------------------------------------------------------------- sortFile

\* ok = FALSE: the error of parser.ParseFile, nothing written to w
sortFile(content, c) ==
    LET t == ParseFile(content)
    IN  IF ~t.ok THEN [ok |-> FALSE, bytes |-> <<>>]
        ELSE [ok |-> TRUE,
              bytes |-> write(t, sortAST(t.Decls, c), content,
                              assignRootCommentsToDecl(t, content))]

\* -------------------------------------------------------------------- run

UsageText == <<"u">>

\* the end of run, from the call of sortFile: res is what sortFile returned,
\* d the file as it is after os.OpenFile (truncated under -w)
runWrite(c, d, content, res) ==
    IF ~res.ok
    THEN [disk |-> d, stdout |-> <<>>, err |-> "sortFile failed", read |-> content]
    ELSE IF c.WriteToFile
    THEN [disk |-> [d EXCEPT !.bytes = res.bytes], stdout |-> <<>>, err |-> "nil",
          read |-> content]
    ELSE [disk |-> d, stdout |-> res.bytes, err |-> "nil", read |-> content]

\* run from the point where the contents have been read
runOpen(c, d, content) ==
    IF c.WriteToFile /\ ~d.writable
    THEN [disk |-> d, stdout |-> <<>>, err |-> "failed to open file for writing",
          read |-> content]
    ELSE runWrite(c, IF c.WriteToFile THEN [d EXCEPT !.bytes = <<>>] ELSE d,
                  content, sortFile(content, c))

\* run(): the flags and arguments a, standard input in, the named file d;
\* the result is the file, the bytes on standard output, the error and
\* the contents read
run(a, c, in, d) ==
    LET fname == IF Len(a.files) > 0 THEN a.files[1] ELSE ""
    IN  IF a.help
        THEN [disk |-> d, stdout |-> UsageText, err |-> "nil", read |-> <<>>]
        ELSE IF Len(a.files) > 1
        THEN [disk |-> d, stdout |-> <<>>, err |-> "too many arguments", read |-> <<>>]
        ELSE IF c.WriteToFile /\ fname = ""
        THEN [disk |-> d, stdout |-> <<>>, err |-> "-w requires file name", read |-> <<>>]
        ELSE IF fname # "" /\ ~d.exists
        THEN [disk |-> d, stdout |-> <<>>, err |-> "failed to open file", read |-> <<>>]
        ELSE runOpen(c, d, IF fname # "" THEN d.bytes ELSE in)

\* ----------------------------------------------------------------- inputs

Configs == [SortAlphabetically : BOOLEAN, WriteToFile : {FALSE}]

NoTree == [ok |-> FALSE]
NoResult == [ok |-> FALSE, bytes |-> <<>>]
NoArgs == [help |-> FALSE, files |-> <<>>]
NoDisk == [exists |-> FALSE, writable |-> FALSE, bytes |-> <<>>]

\* the key sequences of length n
RECURSIVE KeySeqs(_, _)
KeySeqs(keys, n) ==
    IF n = 0 THEN {<<>>}
    ELSE {Append(s, k) : s \in KeySeqs(keys, n - 1), k \in keys}

\* go/parser rejects an import declaration after another declaration
ImportsFirst(ks) ==
    \A i, j \in 1..Len(ks) :
        (i < j /\ DeclTable[ks[j]].tok = "IMPORT") => DeclTable[ks[i]].tok = "IMPORT"

\* the declarations of the text "Pm" followed by NL "D" k for each key
DeclsOf(ks) == [i \in 1..Len(ks) |-> MkDecl(ks[i], 3 * i + 1, 3 * i + 3)]

\* the lists of at most max declarations go/parser can deliver
ShortInputs(max) ==
    {DeclsOf(ks) : ks \in {s \in UNION {KeySeqs(DeclKeys, n) : n \in 0..max} :
                              ImportsFirst(s)}}

\* lists one longer than pdqsort's insertion sort threshold (maxInsertion)
LongLen == 12 + 1
LongKeys == {"V", "F", "H", "A"}

LongInputs ==
    {DeclsOf([i \in 1..LongLen |-> IF i = p THEN k2 ELSE k1]) :
        p \in 1..LongLen, k1 \in LongKeys, k2 \in LongKeys}

SortInputs(max) == ShortInputs(max) \cup LongInputs

\* source texts: header, package clause, units (a declaration with the
\* comments before it), trailer
Headers ==
    {<<>>,
     <<"/", "h", NL>>,
     <<"/", "l", NL, NL>>,
     <<"/", "l", NL, NL, "/", "h", NL>>}

LeadA == <<"a", "c", "e", "g">>
LeadB == <<"b", "d", "f", "i">>
FileKeys == {"V", "F", "A"}

UnitTexts(i, k) ==
    LET a == LeadA[i]
        b == LeadB[i]
    IN  {<<NL, "D", k>>,
         <<NL, "/", a, NL, "D", k>>,
         <<NL, "/", a, NL, NL, "D", k>>,
         <<NL, "[", a, "]", "D", k>>,
         <<NL, "/", a, NL, NL, "/", b, NL, "D", k>>,
         <<NL, "D", k, "{", "[", a, "]", "}">>,
         <<" ", "/", a, NL, "D", k>>}

Trailers ==
    {<<>>,
     <<NL>>,
     <<NL, "/", "x", NL>>,
     <<NL, NL, "/", "x", NL, NL, "/", "y", NL>>,
     <<" ", "/", "x">>}

RECURSIVE Bodies(_)
Bodies(n) ==
    IF n = 0 THEN {<<>>}
    ELSE {b \o u : b \in Bodies(n - 1),
                   u \in UNION {UnitTexts(n, k) : k \in FileKeys}}

Candidates(max) ==
    {h \o <<"P", "m">> \o b \o t :
        h \in Headers, b \in UNION {Bodies(n) : n \in 0..max}, t \in Trailers}

FileInputs(max) == {f \in Candidates(max) : ParseFile(f).ok}

\* texts go/parser rejects
BadInputs == {<<>>, <<"D", "F">>, <<"P", "m", NL, "D", "F", "D", "H">>, <<"P", "m", NL, "[", "x">>}

RunTexts ==
    {<<"P", "m", NL>>,
     <<"P", "m", NL, "D", "F", NL, "D", "V", NL>>,
     <<"/", "h", NL, "P", "m", NL, "/", "a", NL, "D", "F", NL, "/", "x", NL>>}
    \cup BadInputs

\* ----------------------------------------------------------- sortAST alone

InitSort ==
    /\ pc = "sort"
    /\ conf \in Configs
    /\ inDecls \in SortInputs(MaxDecls)
    /\ Decls = inDecls
    /\ contents = <<>>
    /\ tree = NoTree
    /\ comments = <<>>
    /\ out1 = NoResult
    /\ out2 = NoResult
    /\ args = NoArgs
    /\ disk = NoDisk
    /\ stdout = <<>>
    /\ err = "nil"

SortAST ==
    /\ pc = "sort"
    /\ Decls' = sortAST(Decls, conf)
    /\ pc' = "sorted"
    /\ UNCHANGED <<conf, inDecls, contents, tree, comments, out1, out2,
                   args, disk, stdout, err>>

NextSort == SortAST

SpecSort == InitSort /\ [][NextSort]_vars

\* ---------------------------------------------------------------- sortFile

InitFile ==
    /\ pc = "file"
    /\ conf \in Configs
    /\ contents \in FileInputs(MaxUnits)
    /\ inDecls = <<>>
    /\ Decls = <<>>
    /\ tree = NoTree
    /\ comments = <<>>
    /\ out1 = NoResult
    /\ out2 = NoResult
    /\ args = NoArgs
    /\ disk = NoDisk
    /\ stdout = <<>>
    /\ err = "nil"

\* sortFile(contents, w, config); the tree, the map and the sorted list
\* are kept for inspection
SortFile ==
    /\ pc = "file"
    /\ tree' = ParseFile(contents)
    /\ inDecls' = IF tree'.ok THEN tree'.Decls ELSE <<>>
    /\ comments' = IF tree'.ok THEN assignRootCommentsToDecl(tree', contents) ELSE <<>>
    /\ Decls' = IF tree'.ok THEN sortAST(tree'.Decls, conf) ELSE <<>>
    /\ out1' = sortFile(contents, conf)
    /\ pc' = "once"
    /\ UNCHANGED <<conf, contents, out2, args, disk, stdout, err>>

\* sortFile applied to the output of sortFile, with the same config
SortFileAgain ==
    /\ pc = "once"
    /\ out1.ok
    /\ out2' = sortFile(out1.bytes, conf)
    /\ pc' = "twice"
    /\ UNCHANGED <<conf, inDecls, Decls, contents, tree, comments, out1,
                   args, disk, stdout, err>>

NextFile == SortFile \/ SortFileAgain

\* the texts in which no comment touches the declaration after it
Touching(content) ==
    \E p \in 1..(Len(content) - 1) : content[p] = "]" /\ content[p + 1] = "D"

InitSeparated == InitFile /\ ~Touching(contents)

SpecSeparated == InitSeparated /\ [][NextFile]_vars

SpecFile == InitFile /\ [][NextFile]_vars

\* --------------------------------------------------------------------- run

InitRun ==
    /\ pc = "run"
    /\ conf \in [SortAlphabetically : BOOLEAN, WriteToFile : BOOLEAN]
    /\ args \in [help : BOOLEAN, files : {<<>>, <<"f">>, <<"f", "g">>}]
    /\ contents \in RunTexts
    /\ disk \in [exists : BOOLEAN, writable : BOOLEAN, bytes : RunTexts]
    /\ disk.exists \/ (~disk.writable /\ disk.bytes = <<>>)
    /\ inDecls = <<>>
    /\ Decls = <<>>
    /\ tree = NoTree
    /\ comments = <<>>
    /\ out1 = NoResult
    /\ out2 = NoResult
    /\ stdout = <<>>
    /\ err = "nil"

\* run(); contents becomes the bytes it read
Run ==
    /\ pc = "run"
    /\ \E r \in {run(args, conf, contents, disk)} :
           /\ disk' = r.disk
           /\ stdout' = r.stdout
           /\ err' = r.err
           /\ contents' = r.read
    /\ pc' = "done"
    /\ UNCHANGED <<conf, inDecls, Decls, tree, comments, out1, out2, args>>

NextRun == Run

SpecRun == InitRun /\ [][NextRun]_vars

\* ------------------------------------------------------------- properties

Sorted == pc = "sorted"
Once == pc = "once"

\* the position in the sorted list of the declaration d of the input
IndexIn(decls, d) == CHOOSE i \in 1..Len(decls) : decls[i].Pos = d.Pos

\* t occurs in s at position p
OccursAt(s, t, p) == p + Len(t) - 1 <= Len(s) /\ SubSeq(s, p, p + Len(t) - 1) = t
Occurrences(s, t) == {p \in 1..Len(s) : OccursAt(s, t, p)}
Contains(s, t) == t = <<>> \/ Occurrences(s, t) # {}

\* s without its blanks
Squeeze(s) == SelectSeq(s, LAMBDA b : b # " ")

\* the comments of all groups, one by one
RECURSIVE Flatten(_)
Flatten(groups) ==
    IF groups = <<>> THEN <<>> ELSE Head(groups).List \o Flatten(Tail(groups))

Text(content, c) == SubSeq(content, c.Pos, c.End - 1)

\* a comment group at root level: after the package clause, in no declaration
IsRoot(t, c) ==
    /\ c.Pos >= t.Package
    /\ ~\E i \in 1..Len(t.Decls) : t.Decls[i].Pos <= c.Pos /\ c.End <= t.Decls[i].End

RootGroups(t) == SelectSeq(t.Comments, LAMBDA c : IsRoot(t, c))

\* C1: after sortAST the declarations are in kind order Import, Const,
\* Var, Type, Func with no interleaving, whatever the alphabetical option.
KindGrouping ==
    Sorted => \A i, j \in 1..Len(Decls) :
                 i < j => order[Decls[i].tok] <= order[Decls[j].tok]

KindGroupingWitness ==
    /\ Sorted
    /\ conf.SortAlphabetically
    /\ Cardinality({inDecls[i].tok : i \in 1..Len(inDecls)}) >= 3
    /\ \E i, j \in 1..Len(inDecls) :
          i < j /\ order[inDecls[i].tok] > order[inDecls[j].tok]

\* the place of a function in the alphabetical order: methods, then free
\* functions, then main
FuncClass(d) ==
    IF d.recv # noName THEN 0 ELSE IF d.name = nameMain THEN 2 ELSE 1

FuncLeq(a, b) ==
    \/ FuncClass(a) < FuncClass(b)
    \/ /\ FuncClass(a) = FuncClass(b)
       /\ \/ Compare(a.recv, b.recv) < 0
          \/ Compare(a.recv, b.recv) = 0 /\ Compare(a.name, b.name) <= 0

\* C5: with alphabetical=true the Func declarations are ordered: methods by
\* receiver and name, then free functions by name, then main last.
FuncOrder ==
    (Sorted /\ conf.SortAlphabetically) =>
        \A i, j \in 1..Len(Decls) :
            (i < j /\ Decls[i].tok = "FUNC" /\ Decls[j].tok = "FUNC")
                => FuncLeq(Decls[i], Decls[j])

FuncOrderWitness ==
    /\ Sorted
    /\ conf.SortAlphabetically
    /\ \E i, j, k \in 1..Len(inDecls) :
          /\ i < j /\ j < k
          /\ inDecls[i].key = "M"
          /\ inDecls[j].key = "H"
          /\ inDecls[k].tok = "FUNC" /\ inDecls[k].recv # noName
    /\ Decls[Len(Decls)].key = "M"

\* C4: with alphabetical=false two declarations of the same kind keep their
\* relative order, for a list of any length.
StableWhenNotAlphabetical ==
    (Sorted /\ ~conf.SortAlphabetically) =>
        \A i, j \in 1..Len(inDecls) :
            (i < j /\ inDecls[i].tok = inDecls[j].tok)
                => IndexIn(Decls, inDecls[i]) < IndexIn(Decls, inDecls[j])

\* C7: with alphabetical=true the single-member groups of each kind Const,
\* Var, Type are in the order of their names, for every input order.
SinglesAlphabetical ==
    (Sorted /\ conf.SortAlphabetically) =>
        \A i, j \in 1..Len(Decls) :
            (/\ i < j
             /\ Decls[i].tok = Decls[j].tok
             /\ Decls[i].tok \in {"CONST", "VAR", "TYPE"}
             /\ Decls[i].nspecs = 1 /\ Decls[j].nspecs = 1)
                => Compare(Decls[i].name, Decls[j].name) <= 0

\* C2: sortFile applied to its own output gives the same bytes.
Idempotent == pc = "twice" => (out2.ok /\ out2.bytes = out1.bytes)

\* the bytes of a comment group with the run of newlines that follows it
RECURSIVE NewlinesFrom(_, _)
NewlinesFrom(content, p) ==
    IF p <= Len(content) /\ content[p] = NL
    THEN <<NL>> \o NewlinesFrom(content, p + 1)
    ELSE <<>>

WithNewlines(content, c) == Text(content, c) \o NewlinesFrom(content, c.End)

\* the root comment groups the classifier's rule (first declaration that
\* starts after the comment) gives to the declaration d, in source order
GroupsOf(t, d) ==
    SelectSeq(RootGroups(t),
              LAMBDA c : /\ DeclsAfter(t.Decls, c.End) # {}
                         /\ t.Decls[Min(DeclsAfter(t.Decls, c.End))].Pos = d.Pos)

RECURSIVE ConcatWithNewlines(_, _)
ConcatWithNewlines(content, groups) ==
    IF groups = <<>> THEN <<>>
    ELSE WithNewlines(content, Head(groups))
         \o ConcatWithNewlines(content, Tail(groups))

\* C3: the comments attached to a declaration D stand, with their newline
\* runs and in source order, immediately before the bytes of D in the
\* output (blanks apart).
CommentFidelity ==
    Once => \A i \in 1..Len(tree.Decls) :
               LET d == tree.Decls[i]
               IN  Contains(Squeeze(out1.bytes),
                            Squeeze(ConcatWithNewlines(contents, GroupsOf(tree, d))
                                    \o SubSeq(contents, d.Pos, d.End - 1)))

\* C6: every comment before the package clause is in the output, before
\* the package line.
HeaderKept ==
    Once => \A i \in 1..Len(Flatten(tree.Comments)) :
               LET c == Flatten(tree.Comments)[i]
                   pkg == IndexOf(out1.bytes, 1, {"P"})
               IN  c.Pos < tree.Package
                     => Contains(SubSeq(out1.bytes, 1, pkg - 1), Text(contents, c))

\* C8: a root comment goes to the first declaration that starts at or after
\* the end of the comment.
AttachAtOrAfter ==
    Once => \A i \in 1..Len(RootGroups(tree)) :
               LET c == RootGroups(tree)[i]
                   cand == {k \in 1..Len(tree.Decls) : tree.Decls[k].Pos >= c.End}
               IN  cand # {} =>
                     /\ DeclKey(tree.Decls[Min(cand)]) \in DOMAIN comments
                     /\ Contains(comments[DeclKey(tree.Decls[Min(cand)])],
                                 Text(contents, c))

\* C9: the comments after the last declaration are in the sentinel entry
\* once each, the output ends with that entry, and the entry holds no byte
\* of a declaration.
SentinelOnce ==
    Once => /\ \A i \in 1..Len(Flatten(RootGroups(tree))) :
                  LET c == Flatten(RootGroups(tree))[i]
                  IN  (\A k \in 1..Len(tree.Decls) : tree.Decls[k].End <= c.Pos)
                        => Cardinality(Occurrences(comments[NilKey],
                                                   Text(contents, c))) = 1
            /\ OccursAt(out1.bytes, comments[NilKey],
                        Len(out1.bytes) - Len(comments[NilKey]) + 1)
            /\ ~\E p \in 1..Len(comments[NilKey]) : comments[NilKey][p] = "D"

\* C10: with -w and a file name, an error of sortFile leaves the file with
\* the bytes run read from it.
FileKeptOnError ==
    (/\ pc = "done"
     /\ conf.WriteToFile
     /\ Len(args.files) = 1
     /\ err = "sortFile failed") => disk.bytes = contents

====
